---------------------------- MODULE Spec2Model ----------------------------
(***************************************************************************)
(* Model of anki_to_json.py: the converter of an Anki collection archive   *)
(* into a JSON document (deck tree and per-note cards) and a media folder. *)
(*                                                                         *)
(* Text is modelled as a sequence of one-character strings, so that the    *)
(* regular expressions, str.replace, str.split, str.strip and str.lower of *)
(* the source are computed character by character.                         *)
(***************************************************************************)
EXTENDS Naturals, Sequences, FiniteSets, TLC

VARIABLES
    \* clean_html / fix_media_paths applied to one text
    text, cleaned, fixed, spc,
    \* parse_anki_collection (decks) and build_deck_tree
    decks_json, decks, sorted_decks, di, parts, pi, current_path, parent,
    nodes, deck_map, root_nodes, tpc,
    \* parse_anki_collection (notes and cards)
    notes_rows, cards_rows, notes, fetched, ci, cards_by_note, cards, kpc,
    \* convert_colpkg_to_json and extract_media
    archive, pc, error, db_path, output_written, media_started, media_map,
    mi, media_files, media_count, warned

cleanVars == <<text, cleaned, fixed, spc>>
treeVars  == <<decks_json, decks, sorted_decks, di, parts, pi, current_path,
               parent, nodes, deck_map, root_nodes, tpc>>
cardVars  == <<notes_rows, cards_rows, notes, fetched, ci, cards_by_note,
               cards, kpc>>
convVars  == <<archive, pc, error, db_path, output_written, media_started,
               media_map, mi, media_files, media_count, warned>>
vars == <<cleanVars, treeVars, cardVars, convVars>>

\* Python's None where a string is expected: no text has this one element
None == <<"None">>
\* Python's None for the parent node of build_deck_tree (nodes count from 1)
NoNode == 0
\* no exception has been raised
NoError == "none"

-----------------------------------------------------------------------------
(* Bounds of the model *)

\* longest input text of the sanitizer, in tokens of CleanTokens
MaxTokens == 2
\* most deck records in the col.decks table
MaxDecks == 3
\* most rows of the cards table
MaxCards == 2
\* most entries of the archive's media map
MaxMedia == 2

-----------------------------------------------------------------------------
(* Characters and strings *)

\* the unit separator '\x1f' between the fields of notes.flds (line 119)
US == "US"

\* str.isspace for the characters of the model (str.strip, regex \s)
IsSpace(c) == c \in {" ", "\n", "\t", "\r", "\f", US}

\* the characters of code points 32..95, in order
AsciiChars ==
    <<
       " ", "!", "\"", "#", "$", "%", "&", "'", "(", ")", "*", "+", ",",
       "-", ".", "/", "0", "1", "2", "3", "4", "5", "6", "7", "8", "9",
       ":", ";", "<", "=", ">", "?", "@", "A", "B", "C", "D", "E", "F",
       "G", "H", "I", "J", "K", "L", "M", "N", "O", "P", "Q", "R", "S",
       "T", "U", "V", "W", "X", "Y", "Z", "[", "\\", "]", "^", "_" >>

\* the characters of code points 97..126, in order (96, the grave accent,
\* cannot be written in a string of this language and is in no text here)
AsciiLowerChars ==
    <<
       "a", "b", "c", "d", "e", "f", "g", "h", "i", "j", "k", "l", "m",
       "n", "o", "p", "q", "r", "s", "t", "u", "v", "w", "x", "y", "z",
       "{", "|", "}", "~" >>

\* the characters of code points 192..255, in order
Latin1Chars ==
    <<
       "À", "Á", "Â", "Ã", "Ä", "Å", "Æ", "Ç", "È", "É", "Ê", "Ë", "Ì",
       "Í", "Î", "Ï", "Ð", "Ñ", "Ò", "Ó", "Ô", "Õ", "Ö", "×", "Ø", "Ù",
       "Ú", "Û", "Ü", "Ý", "Þ", "ß", "à", "á", "â", "ã", "ä", "å", "æ",
       "ç", "è", "é", "ê", "ë", "ì", "í", "î", "ï", "ð", "ñ", "ò", "ó",
       "ô", "õ", "ö", "÷", "ø", "ù", "ú", "û", "ü", "ý", "þ", "ÿ" >>

\* the code points of the characters of the model
OrdTable ==
    [c \in {"\t"} |-> 9] @@ [c \in {"\n"} |-> 10] @@ [c \in {"\f"} |-> 12]
    @@ [c \in {"\r"} |-> 13] @@ [c \in {US} |-> 31]
    @@ [c \in { AsciiChars[k] : k \in 1..Len(AsciiChars) } |->
          31 + (CHOOSE k \in 1..Len(AsciiChars) : AsciiChars[k] = c)]
    @@ [c \in { AsciiLowerChars[k] : k \in 1..Len(AsciiLowerChars) } |->
          96 + (CHOOSE k \in 1..Len(AsciiLowerChars) : AsciiLowerChars[k] = c)]
    @@ [c \in { Latin1Chars[k] : k \in 1..Len(Latin1Chars) } |->
          191 + (CHOOSE k \in 1..Len(Latin1Chars) : Latin1Chars[k] = c)]

\* ord(c): the code point of a character
Ord(c) == IF c \in DOMAIN OrdTable THEN OrdTable[c] ELSE 0

\* the letters that str.lower changes (A-Z and the capitals of 192..222)
UpperLetters ==
    <<
       "A", "B", "C", "D", "E", "F", "G", "H", "I", "J", "K", "L", "M",
       "N", "O", "P", "Q", "R", "S", "T", "U", "V", "W", "X", "Y", "Z",
       "À", "Á", "Â", "Ã", "Ä", "Å", "Æ", "Ç", "È", "É", "Ê", "Ë", "Ì",
       "Í", "Î", "Ï", "Ð", "Ñ", "Ò", "Ó", "Ô", "Õ", "Ö", "Ø", "Ù", "Ú",
       "Û", "Ü", "Ý", "Þ" >>

\* their lower-case forms, position by position
LowerLetters ==
    <<
       "a", "b", "c", "d", "e", "f", "g", "h", "i", "j", "k", "l", "m",
       "n", "o", "p", "q", "r", "s", "t", "u", "v", "w", "x", "y", "z",
       "à", "á", "â", "ã", "ä", "å", "æ", "ç", "è", "é", "ê", "ë", "ì",
       "í", "î", "ï", "ð", "ñ", "ò", "ó", "ô", "õ", "ö", "ø", "ù", "ú",
       "û", "ü", "ý", "þ" >>

\* str.lower, letter by letter
LowerTable ==
    [c \in { UpperLetters[k] : k \in 1..Len(UpperLetters) } |->
        LowerLetters[CHOOSE k \in 1..Len(UpperLetters) : UpperLetters[k] = c]]

\* str.lower on one character
LowerChar(c) == IF c \in DOMAIN LowerTable THEN LowerTable[c] ELSE c

\* str.lower
Lower(s) == [k \in 1..Len(s) |-> LowerChar(s[k])]

\* s[i:].startswith(p), 1-based i
StartsWithAt(s, i, p) ==
    /\ i + Len(p) - 1 <= Len(s)
    /\ \A k \in 1..Len(p) : s[i + k - 1] = p[k]

\* s[i..j] (inclusive, 1-based); empty when j < i
Slice(s, i, j) == IF j < i THEN <<>> ELSE SubSeq(s, i, j)

\* index of the first occurrence of character c at or after i, 0 when none
RECURSIVE FindChar(_, _, _)
FindChar(s, i, c) ==
    IF i > Len(s) THEN 0
    ELSE IF s[i] = c THEN i
    ELSE FindChar(s, i + 1, c)

\* str.replace(p, r): non-overlapping occurrences, left to right, one pass
RECURSIVE ReplaceFrom(_, _, _, _)
ReplaceFrom(s, i, p, r) ==
    IF i > Len(s) THEN <<>>
    ELSE IF StartsWithAt(s, i, p) THEN r \o ReplaceFrom(s, i + Len(p), p, r)
    ELSE <<s[i]>> \o ReplaceFrom(s, i + 1, p, r)

str_replace(s, p, r) == ReplaceFrom(s, 1, p, r)

\* str.strip(): leading and trailing whitespace removed
RECURSIVE LStrip(_)
LStrip(s) ==
    IF s = <<>> THEN <<>>
    ELSE IF IsSpace(Head(s)) THEN LStrip(Tail(s))
    ELSE s

RECURSIVE RStrip(_)
RStrip(s) ==
    IF s = <<>> THEN <<>>
    ELSE IF IsSpace(s[Len(s)]) THEN RStrip(SubSeq(s, 1, Len(s) - 1))
    ELSE s

str_strip(s) == RStrip(LStrip(s))

\* str.split(sep) for a non-empty separator: always at least one part
RECURSIVE SplitFrom(_, _, _, _)
SplitFrom(s, i, sep, cur) ==
    IF i > Len(s) THEN <<cur>>
    ELSE IF StartsWithAt(s, i, sep)
         THEN <<cur>> \o SplitFrom(s, i + Len(sep), sep, <<>>)
    ELSE SplitFrom(s, i + 1, sep, Append(cur, s[i]))

str_split(s, sep) == SplitFrom(s, 1, sep, <<>>)

\* sep.join(items)
RECURSIVE str_join(_, _)
str_join(sep, items) ==
    IF items = <<>> THEN <<>>
    ELSE IF Len(items) = 1 THEN items[1]
    ELSE items[1] \o sep \o str_join(sep, Tail(items))

\* Python's s < t on strings: lexicographic by code point
RECURSIVE StrLess(_, _)
StrLess(s, t) ==
    IF t = <<>> THEN FALSE
    ELSE IF s = <<>> THEN TRUE
    ELSE IF Ord(Head(s)) < Ord(Head(t)) THEN TRUE
    ELSE IF Ord(Head(s)) > Ord(Head(t)) THEN FALSE
    ELSE StrLess(Tail(s), Tail(t))

\* str(n) for a natural number
Digit(n) == <<"0", "1", "2", "3", "4", "5", "6", "7", "8", "9">>[n + 1]

RECURSIVE Str(_)
Str(n) == IF n < 10 THEN <<Digit(n)>> ELSE Str(n \div 10) \o <<Digit(n % 10)>>

-----------------------------------------------------------------------------
(* Literals of the source *)

SoundOpen  == <<"[", "s", "o", "u", "n", "d", ":">>
SrcOpen    == <<"s", "r", "c", "=", "\"">>
MediaSlash == <<"m", "e", "d", "i", "a", "/">>
Http       == <<"h", "t", "t", "p">>
AudioOpen  == <<"<", "a", "u", "d", "i", "o", " ", "c", "o", "n", "t", "r",
                "o", "l", "s", " ">> \o SrcOpen \o MediaSlash
AudioClose == <<"\"", ">", "<", "/", "a", "u", "d", "i", "o", ">">>
BrMark     == <<"<", "b", "r", ">">>
PathSep    == <<":", ":">>
Virtual    == <<"v", "i", "r", "t", "u", "a", "l", "_">>
Unknown    == <<"U", "n", "k", "n", "o", "w", "n">>

EntNbsp == <<"&", "n", "b", "s", "p", ";">>
EntLt   == <<"&", "l", "t", ";">>
EntGt   == <<"&", "g", "t", ";">>
EntAmp  == <<"&", "a", "m", "p", ";">>
EntQuot == <<"&", "q", "u", "o", "t", ";">>

\* the labels of the default deck, line 107
DefaultLabels ==
    { <<"d", "e", "f", "a", "u", "l", "t">>,
      <<"p", "a", "r", " ", "d", "é", "f", "a", "u", "t">> }

-----------------------------------------------------------------------------
(* Text Sanitizer: clean_html and fix_media_paths *)

\* end of the match of \[sound:[^\]]+\] starting at i, 0 when it does not match
SoundMatchEnd(s, i) ==
    IF ~StartsWithAt(s, i, SoundOpen) THEN 0
    ELSE LET q == i + Len(SoundOpen)
             j == FindChar(s, q, "]")
         IN  IF j > q THEN j ELSE 0

\* re.sub(r'\[sound:[^\]]+\]', '', s)
RECURSIVE StripSoundFrom(_, _)
StripSoundFrom(s, i) ==
    IF i > Len(s) THEN <<>>
    ELSE LET e == SoundMatchEnd(s, i)
         IN  IF e > 0 THEN StripSoundFrom(s, e + 1)
             ELSE <<s[i]>> \o StripSoundFrom(s, i + 1)

\* first index at or after i that holds no whitespace (Len(s)+1 when none)
RECURSIVE SkipSpace(_, _)
SkipSpace(s, i) ==
    IF i <= Len(s) /\ IsSpace(s[i]) THEN SkipSpace(s, i + 1) ELSE i

\* end of the match of <br\s*/?> (IGNORECASE) starting at i, 0 when none
BrMatchEnd(s, i) ==
    IF ~(i + 2 <= Len(s) /\ s[i] = "<" /\ LowerChar(s[i + 1]) = "b"
                          /\ LowerChar(s[i + 2]) = "r")
    THEN 0
    ELSE LET k == SkipSpace(s, i + 3)
             m == IF k <= Len(s) /\ s[k] = "/" THEN k + 1 ELSE k
         IN  IF m <= Len(s) /\ s[m] = ">" THEN m ELSE 0

\* re.sub(r'<br\s*/?>', '\n', s, flags=re.IGNORECASE)
RECURSIVE BrToNewlineFrom(_, _)
BrToNewlineFrom(s, i) ==
    IF i > Len(s) THEN <<>>
    ELSE LET e == BrMatchEnd(s, i)
         IN  IF e > 0 THEN <<"\n">> \o BrToNewlineFrom(s, e + 1)
             ELSE <<s[i]>> \o BrToNewlineFrom(s, i + 1)

\* end of the match of <[^>]+> starting at i, 0 when none
TagMatchEnd(s, i) ==
    IF s[i] # "<" THEN 0
    ELSE LET j == FindChar(s, i + 1, ">")
         IN  IF j > i + 1 THEN j ELSE 0

\* re.sub(r'<[^>]+>', '', s)
RECURSIVE StripTagsFrom(_, _)
StripTagsFrom(s, i) ==
    IF i > Len(s) THEN <<>>
    ELSE LET e == TagMatchEnd(s, i)
         IN  IF e > 0 THEN StripTagsFrom(s, e + 1)
             ELSE <<s[i]>> \o StripTagsFrom(s, i + 1)

\* lines 72-76: the five replacements, in the order of the source
DecodeEntities(s) ==
    LET t1 == str_replace(s,  EntNbsp, <<" ">>)
        t2 == str_replace(t1, EntLt,   <<"<">>)
        t3 == str_replace(t2, EntGt,   <<">">>)
        t4 == str_replace(t3, EntAmp,  <<"&">>)
    IN  str_replace(t4, EntQuot, <<"\"">>)

\* clean_html
clean_html(s) ==
    IF s = <<>> THEN <<>>
    ELSE LET t1 == StripSoundFrom(s, 1)
             t2 == BrToNewlineFrom(t1, 1)
             t3 == StripTagsFrom(t2, 1)
         IN  str_strip(DecodeEntities(t3))

\* end of the match of src="(?!media/)(?!http)([^"]+)" starting at i, 0 when none
SrcMatchEnd(s, i) ==
    IF ~StartsWithAt(s, i, SrcOpen) THEN 0
    ELSE LET q == i + Len(SrcOpen)
             j == FindChar(s, q, "\"")
         IN  IF /\ ~StartsWithAt(s, q, MediaSlash)
                /\ ~StartsWithAt(s, q, Http)
                /\ j > q
             THEN j ELSE 0

\* re.sub(r'src="(?!media/)(?!http)([^"]+)"', r'src="media/\1"', s)
RECURSIVE FixSrcFrom(_, _)
FixSrcFrom(s, i) ==
    IF i > Len(s) THEN <<>>
    ELSE LET e == SrcMatchEnd(s, i)
         IN  IF e > 0
             THEN SrcOpen \o MediaSlash
                    \o Slice(s, i + Len(SrcOpen), e - 1) \o <<"\"">>
                    \o FixSrcFrom(s, e + 1)
             ELSE <<s[i]>> \o FixSrcFrom(s, i + 1)

\* re.sub(r'\[sound:([^\]]+)\]', r'<audio controls src="media/\1"></audio>', s)
RECURSIVE SoundToAudioFrom(_, _)
SoundToAudioFrom(s, i) ==
    IF i > Len(s) THEN <<>>
    ELSE LET e == SoundMatchEnd(s, i)
         IN  IF e > 0
             THEN AudioOpen \o Slice(s, i + Len(SoundOpen), e - 1)
                    \o AudioClose \o SoundToAudioFrom(s, e + 1)
             ELSE <<s[i]>> \o SoundToAudioFrom(s, i + 1)

\* fix_media_paths
fix_media_paths(s) ==
    IF s = <<>> THEN <<>>
    ELSE SoundToAudioFrom(FixSrcFrom(s, 1), 1)

-----------------------------------------------------------------------------
(* Specification SpecClean: the sanitizer applied to one input text *)

\* the pieces the input texts of the model are built from
CleanTokens ==
    { EntNbsp, EntLt, EntGt, EntAmp, EntQuot,
      <<"n", "b", "s", "p", ";">>, <<"l", "t", ";">>, <<"g", "t", ";">>,
      <<"a", "m", "p", ";">>, <<"q", "u", "o", "t", ";">>,
      <<"a">>, <<" ">>, <<"\n">>, <<"<">>, <<">">>, <<"]">>,
      BrMark, <<"<", "B", "R", " ", "/", ">">>, <<"<", "b", ">">>,
      <<"[", "s", "o", "u", "n", "d", ":", "x", "]">>, SoundOpen,
      SrcOpen \o <<"x", "\"">>, SrcOpen \o MediaSlash \o <<"x", "\"">>,
      SrcOpen \o Http \o <<"\"">>, SrcOpen }

\* the texts of at most n tokens
RECURSIVE TextsUpTo(_)
TextsUpTo(n) ==
    IF n = 0 THEN { <<>> }
    ELSE LET shorter == TextsUpTo(n - 1)
         IN  shorter \cup { t \o tok : t \in shorter, tok \in CleanTokens }

CleanIdle ==
    /\ text = <<>> /\ cleaned = None /\ fixed = None /\ spc = "idle"

TreeIdle ==
    /\ decks_json = <<>> /\ decks = <<>> /\ sorted_decks = <<>>
    /\ di = 0 /\ parts = <<>> /\ pi = 0 /\ current_path = <<>>
    /\ parent = NoNode /\ nodes = <<>> /\ deck_map = <<>>
    /\ root_nodes = <<>> /\ tpc = "idle"

CardIdle ==
    /\ notes_rows = <<>> /\ cards_rows = <<>> /\ notes = <<>>
    /\ fetched = <<>> /\ ci = 0 /\ cards_by_note = <<>> /\ cards = <<>>
    /\ kpc = "idle"

ConvIdle ==
    /\ archive = <<>> /\ pc = "idle" /\ error = NoError /\ db_path = None
    /\ output_written = FALSE /\ media_started = FALSE
    /\ media_map = <<>> /\ mi = 0 /\ media_files = <<>>
    /\ media_count = 0 /\ warned = FALSE

InitClean ==
    /\ text \in TextsUpTo(MaxTokens)
    /\ cleaned = None /\ fixed = None /\ spc = "start"
    /\ TreeIdle /\ CardIdle /\ ConvIdle

\* a call of clean_html(text)
CleanHtml ==
    /\ spc = "start" /\ cleaned = None
    /\ cleaned' = clean_html(text)
    /\ spc' = IF fixed = None THEN "start" ELSE "done"
    /\ UNCHANGED <<text, fixed, treeVars, cardVars, convVars>>

\* a call of fix_media_paths(text)
FixMediaPaths ==
    /\ spc = "start" /\ fixed = None
    /\ fixed' = fix_media_paths(text)
    /\ spc' = IF cleaned = None THEN "start" ELSE "done"
    /\ UNCHANGED <<text, cleaned, treeVars, cardVars, convVars>>

NextClean == CleanHtml \/ FixMediaPaths

SpecClean == InitClean /\ [][NextClean]_vars

-----------------------------------------------------------------------------
(* Collection Parser, decks: lines 102-112 of parse_anki_collection *)

\* line 105: deck_info.get("name", "Unknown"); None stands for a missing key
DeckName(deck_info) ==
    IF deck_info.name = None THEN Unknown ELSE deck_info.name

\* line 107, as a comparison that forgets .lower()
SkipDeckCaseSensitive(deck_name) == deck_name \in DefaultLabels

\* line 107: deck_name.lower() in ["default", "par défaut"]
SkipDeck(deck_name) == Lower(deck_name) \in DefaultLabels

\* lines 103-112: the decks dict, in insertion order
RECURSIVE FilterDecks(_)
FilterDecks(table) ==
    IF table = <<>> THEN <<>>
    ELSE LET deck_name == DeckName(Head(table))
             rest == FilterDecks(Tail(table))
         IN  IF SkipDeck(deck_name) THEN rest
             ELSE <<[id |-> Head(table).id, name |-> deck_name]>> \o rest

-----------------------------------------------------------------------------
(* Deck Tree Builder: build_deck_tree *)

\* line 171: sorted(..., key=name) is stable: d goes after every deck whose
\* name is not greater than its own
RECURSIVE InsertByName(_, _)
InsertByName(sorted, d) ==
    IF sorted = <<>> THEN <<d>>
    ELSE IF StrLess(d.name, Head(sorted).name) THEN <<d>> \o sorted
    ELSE <<Head(sorted)>> \o InsertByName(Tail(sorted), d)

RECURSIVE SortByName(_)
SortByName(ds) ==
    IF ds = <<>> THEN <<>>
    ELSE InsertByName(SortByName(SubSeq(ds, 1, Len(ds) - 1)), ds[Len(ds)])

\* lines 185-188: the truth value of current_path decides, not the index
NextPath(cur, part) ==
    IF cur # <<>> THEN cur \o PathSep \o part ELSE part

\* line 190 with the membership test forgotten: a node for every segment
NodeMissingAlways(path, part, map) == TRUE

\* line 190: current_path not in deck_map
NodeMissing(path, part, map) == path \notin DOMAIN map

\* lines 191-196
NewNode(deck, path, part) ==
    [ id       |-> IF path = deck.name THEN deck.id ELSE Virtual \o path,
      name     |-> part,
      fullPath |-> path,
      children |-> <<>> ]

\* lines 203-207: a root with this full path is already in root_nodes
RootExists(roots, ns, path) ==
    \E k \in 1..Len(roots) : ns[roots[k]].fullPath = path

\* the deck names of the model; None is a record without a "name" key
DeckNames ==
    { <<"a">>, <<"b">>,
      <<"a", ":", ":", "b">>,
      <<":", ":", "a">>,
      <<"a", ":", ":", ":", ":", "b">>,
      <<>>,
      <<"D", "e", "f", "a", "u", "l", "t">>,
      <<"D", "e", "f", "a", "u", "l", "t", ":", ":", "a">>,
      <<"D", "E", "F", "A", "U", "L", "T">>,
      <<"P", "a", "r", " ", "d", "É", "f", "a", "u", "t">>,
      None }

\* the col.decks tables of n records: the k-th key is str(k)
DeckTables(n) ==
    { [k \in 1..n |-> [id |-> Str(k), name |-> f[k]]] : f \in [1..n -> DeckNames] }

InitTree ==
    /\ decks_json \in UNION { DeckTables(n) : n \in 0..MaxDecks }
    /\ decks = <<>> /\ sorted_decks = <<>>
    /\ di = 0 /\ parts = <<>> /\ pi = 0 /\ current_path = <<>>
    /\ parent = NoNode /\ nodes = <<>> /\ deck_map = <<>>
    /\ root_nodes = <<>> /\ tpc = "filter"
    /\ CleanIdle /\ CardIdle /\ ConvIdle

\* lines 102-112
BuildDecks ==
    /\ tpc = "filter"
    /\ decks' = FilterDecks(decks_json)
    /\ tpc' = "sort"
    /\ UNCHANGED <<decks_json, sorted_decks, di, parts, pi, current_path,
                   parent, nodes, deck_map, root_nodes>>
    /\ UNCHANGED <<cleanVars, cardVars, convVars>>

\* lines 171-174
SortDecks ==
    /\ tpc = "sort"
    /\ sorted_decks' = SortByName(decks)
    /\ root_nodes' = <<>> /\ deck_map' = <<>>
    /\ di' = 1
    /\ tpc' = "decks"
    /\ UNCHANGED <<decks_json, decks, parts, pi, current_path, parent, nodes>>
    /\ UNCHANGED <<cleanVars, cardVars, convVars>>

\* lines 176-182: the next deck of the outer loop
NextDeck ==
    /\ tpc = "decks" /\ di <= Len(sorted_decks)
    /\ parts' = str_split(sorted_decks[di].name, PathSep)
    /\ current_path' = <<>>
    /\ parent' = NoNode
    /\ pi' = 1
    /\ tpc' = "parts"
    /\ UNCHANGED <<decks_json, decks, sorted_decks, di, nodes, deck_map,
                   root_nodes>>
    /\ UNCHANGED <<cleanVars, cardVars, convVars>>

\* lines 184-211: one iteration of the inner loop
PartStep ==
    /\ tpc = "parts" /\ pi <= Len(parts)
    /\ LET deck == sorted_decks[di]
           part == parts[pi]
           path == NextPath(current_path, part)
           idx  == Len(nodes) + 1
       IN  /\ current_path' = path
           /\ IF NodeMissing(path, part, deck_map)
              THEN /\ deck_map' = deck_map @@ (path :> idx)
                   /\ IF parent # NoNode
                      THEN /\ nodes' = Append(
                                [nodes EXCEPT ![parent].children = Append(@, idx)],
                                NewNode(deck, path, part))
                           /\ root_nodes' = root_nodes
                      ELSE /\ nodes' = Append(nodes, NewNode(deck, path, part))
                           /\ root_nodes' =
                                IF RootExists(root_nodes, nodes, path)
                                THEN root_nodes
                                ELSE Append(root_nodes, idx)
                   /\ parent' = idx
              ELSE /\ UNCHANGED <<nodes, deck_map, root_nodes>>
                   /\ parent' = deck_map[path]
    /\ pi' = pi + 1
    /\ UNCHANGED <<decks_json, decks, sorted_decks, di, parts, tpc>>
    /\ UNCHANGED <<cleanVars, cardVars, convVars>>

\* the inner loop is exhausted: back to the outer loop
EndDeck ==
    /\ tpc = "parts" /\ pi > Len(parts)
    /\ di' = di + 1
    /\ tpc' = "decks"
    /\ UNCHANGED <<decks_json, decks, sorted_decks, parts, pi, current_path,
                   parent, nodes, deck_map, root_nodes>>
    /\ UNCHANGED <<cleanVars, cardVars, convVars>>

\* line 213: return root_nodes
ReturnTree ==
    /\ tpc = "decks" /\ di > Len(sorted_decks)
    /\ tpc' = "done"
    /\ UNCHANGED <<decks_json, decks, sorted_decks, di, parts, pi,
                   current_path, parent, nodes, deck_map, root_nodes>>
    /\ UNCHANGED <<cleanVars, cardVars, convVars>>

NextTree ==
    \/ BuildDecks
    \/ SortDecks
    \/ NextDeck
    \/ PartStep
    \/ EndDeck
    \/ ReturnTree

SpecTree == InitTree /\ [][NextTree]_vars

-----------------------------------------------------------------------------
(* Properties of the deck tree *)

Elems(seq) == { seq[k] : k \in 1..Len(seq) }

Count(seq, x) == Cardinality({ k \in 1..Len(seq) : seq[k] = x })

NodeIds == 1..Len(nodes)

\* the node whose children list holds n, NoNode for a node held by no list
ParentOf(n) ==
    IF \E m \in NodeIds : n \in Elems(nodes[m].children)
    THEN CHOOSE m \in NodeIds : n \in Elems(nodes[m].children)
    ELSE NoNode

\* the names of the nodes from a root down to n, n's own name last
RECURSIVE PathNames(_)
PathNames(n) ==
    IF ParentOf(n) = NoNode THEN <<nodes[n].name>>
    ELSE Append(PathNames(ParentOf(n)), nodes[n].name)

\* in how many places node n is attached: the root list and all children lists
RECURSIVE ChildSlots(_, _)
ChildSlots(n, m) ==
    IF m = 0 THEN 0 ELSE Count(nodes[m].children, n) + ChildSlots(n, m - 1)

AttachCount(n) == Count(root_nodes, n) + ChildSlots(n, Len(nodes))

\* a name equals a default label up to case, stated apart from the parser
EqualsDefaultLabel(name) ==
    /\ name # None
    /\ \E lab \in DefaultLabels :
         /\ Len(lab) = Len(name)
         /\ \A k \in 1..Len(lab) : LowerChar(name[k]) = lab[k]

DefaultDecks == { d \in Elems(decks_json) : EqualsDefaultLabel(d.name) }

\* path is name itself or a "::"-prefix of name
PassesThrough(name, path) ==
    \/ name = path
    \/ StartsWithAt(name, 1, path \o PathSep)

\* C2 as stated: no node of the returned tree has a default deck's id, and no
\* node has a default deck's name as its fullPath.
C2_DefaultNeverAppears ==
    tpc = "done" =>
        \A d \in DefaultDecks : \A n \in NodeIds :
            /\ nodes[n].id # d.id
            /\ nodes[n].fullPath # d.name

\* C2 as amended: no node of the tree, at any step, has a default deck's id;
\* a node whose fullPath is a default deck's name is a virtual node, with the
\* id "virtual_" followed by that path.
C2_DefaultOnlyVirtual ==
    \A d \in DefaultDecks : \A n \in NodeIds :
        /\ nodes[n].id # d.id
        /\ nodes[n].fullPath = d.name => nodes[n].id = Virtual \o nodes[n].fullPath

\* C2's case: a default deck was in the table next to a deck below it, and the
\* returned tree holds a node with the default deck's name as fullPath.
C2_Witness ==
    /\ tpc = "done"
    /\ \E d \in DefaultDecks : \E n \in NodeIds :
         /\ nodes[n].fullPath = d.name
         /\ nodes[n].children # <<>>

\* C3: in the returned tree every leaf's fullPath is the "::"-join of the names
\* on the path from a root down to the leaf.
C3_LeafFullPathIsJoinedNames ==
    tpc = "done" =>
        \A n \in NodeIds :
            nodes[n].children = <<>> =>
                nodes[n].fullPath = str_join(PathSep, PathNames(n))

\* C4: in the returned tree every input deck has a node with its name as
\* fullPath and its id, and a node carries the id "virtual_" + fullPath exactly
\* when its fullPath is the name of no input deck.
C4_RealIdIffRealDeck ==
    tpc = "done" =>
        /\ \A k \in 1..Len(decks) : \E n \in NodeIds :
             /\ nodes[n].fullPath = decks[k].name
             /\ nodes[n].id = decks[k].id
        /\ \A n \in NodeIds :
             (\A k \in 1..Len(decks) : decks[k].name # nodes[n].fullPath)
                <=> nodes[n].id = Virtual \o nodes[n].fullPath

\* C10: at every step each full path has one node, each node is attached in
\* exactly one place, and the root list holds no full path twice.
C10_OneNodePerPath ==
    /\ \A i, j \in NodeIds :
         nodes[i].fullPath = nodes[j].fullPath => i = j
    /\ \A n \in NodeIds : AttachCount(n) = 1
    /\ \A i, j \in 1..Len(root_nodes) :
         nodes[root_nodes[i]].fullPath = nodes[root_nodes[j]].fullPath => i = j
    /\ \A p \in DOMAIN deck_map : nodes[deck_map[p]].fullPath = p

\* C10's case: the traversal has returned and two decks passed through one
\* path, which has its single node.
C10_Witness ==
    /\ tpc = "done"
    /\ \E p \in DOMAIN deck_map :
         /\ Cardinality({ d.name : d \in { e \in Elems(sorted_decks) :
                            PassesThrough(e.name, p) } }) >= 2
         /\ Cardinality({ n \in NodeIds : nodes[n].fullPath = p }) = 1

-----------------------------------------------------------------------------
(* Collection Parser, notes and cards: lines 114-155 *)

\* line 119: fields.split('\x1f') if fields else []
FieldList(flds) == IF flds = <<>> THEN <<>> ELSE str_split(flds, <<US>>)

\* lines 116-124: the notes dict, note id -> field list (a later row of the
\* same id replaces an earlier one)
RECURSIVE ReadNotes(_)
ReadNotes(rows) ==
    IF rows = <<>> THEN <<>>
    ELSE LET last == rows[Len(rows)]
         IN  (last.id :> FieldList(last.flds))
                @@ ReadNotes(SubSeq(rows, 1, Len(rows) - 1))

\* the orders of the rows of a table
Orders(rows) ==
    { [k \in 1..Len(rows) |-> rows[p[k]]] :
        p \in { q \in [1..Len(rows) -> 1..Len(rows)] :
                  \A a, b \in 1..Len(rows) : q[a] = q[b] => a = b } }

\* line 128 without its ORDER BY: the rows as the table holds them
FetchCardsUnordered(rows) == { rows }

\* line 128: SELECT ... FROM cards ORDER BY ord; SQL leaves the order of rows
\* of equal ord open
FetchCards(rows) ==
    { o \in Orders(rows) :
        \A a, b \in 1..Len(o) : a < b => o[a].ord <= o[b].ord }

\* line 133: note_id in cards_by_note
HasCard(by_note, note_id) ==
    \E k \in 1..Len(by_note) : by_note[k].note_id = note_id

\* lines 136-137: notes.get(note_id, {}).get("fields", [])
NoteFields(ns, note_id) ==
    IF note_id \in DOMAIN ns THEN ns[note_id] ELSE <<>>

\* line 144 with no filter: every remaining field is kept
PartKeptAlways(part) == TRUE

\* line 144: if part.strip()
PartKept(part) == str_strip(part) # <<>>

RECURSIVE KeptParts(_)
KeptParts(back_parts) ==
    IF back_parts = <<>> THEN <<>>
    ELSE IF PartKept(Head(back_parts))
         THEN <<Head(back_parts)>> \o KeptParts(Tail(back_parts))
    ELSE KeptParts(Tail(back_parts))

\* lines 140-152: the output card of a row
MakeCard(fields, deck_id) ==
    LET front == IF Len(fields) > 0 THEN fields[1] ELSE <<>>
        back_parts == IF Len(fields) > 1 THEN Tail(fields) ELSE <<>>
        back == str_join(BrMark, KeptParts(back_parts))
    IN  [ deckId     |-> Str(deck_id),
          front      |-> fix_media_paths(front),
          frontClean |-> clean_html(front),
          back       |-> fix_media_paths(back),
          backClean  |-> clean_html(back) ]

\* the notes.flds values of the model
FieldBlobs ==
    { <<>>,
      <<"F">>,
      <<"F", US, "B">>,
      <<"F", US, "B", US, US, "C">>,
      <<"F", US, " ", "\n", US, "B">>,
      <<US, "B", " ">>,
      <<"F", US, US>>,
      <<"<", "i", "m", "g", " ">> \o SrcOpen \o <<"x", "\"", ">", US>>
          \o SoundOpen \o <<"y", "]", US, "a">> \o EntAmp \o EntQuot
          \o BrMark \o <<"<", "b", ">", "c">> }

NoteIdsOfModel == {1, 2}
DeckIdsOfModel == {1, 12}
OrdsOfModel    == {0, 1}

\* the notes tables of the model: note 1 and note 2, each present or not
NotesTables ==
    { <<>> }
    \cup { <<[id |-> 1, flds |-> b]>> : b \in FieldBlobs }
    \cup { <<[id |-> 2, flds |-> <<"G", US, "H">>], [id |-> 1, flds |-> b]>> :
             b \in FieldBlobs }

\* the cards tables of n rows: the k-th row has id k
CardsTables(n) ==
    { [k \in 1..n |-> [id |-> k, nid |-> f[k][1], did |-> f[k][2], ord |-> f[k][3]]] :
        f \in [1..n -> NoteIdsOfModel \X DeckIdsOfModel \X OrdsOfModel] }

InitCards ==
    /\ notes_rows \in NotesTables
    /\ cards_rows \in UNION { CardsTables(n) : n \in 0..MaxCards }
    /\ notes = <<>> /\ fetched = <<>> /\ ci = 0 /\ cards_by_note = <<>>
    /\ cards = <<>> /\ kpc = "notes"
    /\ CleanIdle /\ TreeIdle /\ ConvIdle

\* lines 114-124
LoadNotes ==
    /\ kpc = "notes"
    /\ notes' = ReadNotes(notes_rows)
    /\ kpc' = "select"
    /\ UNCHANGED <<notes_rows, cards_rows, fetched, ci, cards_by_note, cards>>
    /\ UNCHANGED <<cleanVars, treeVars, convVars>>

\* lines 128-129
SelectCards ==
    /\ kpc = "select"
    /\ fetched' \in FetchCards(cards_rows)
    /\ cards_by_note' = <<>>
    /\ ci' = 1
    /\ kpc' = "rows"
    /\ UNCHANGED <<notes_rows, cards_rows, notes, cards>>
    /\ UNCHANGED <<cleanVars, treeVars, convVars>>

\* lines 131-153: one fetched row
CardStep ==
    /\ kpc = "rows" /\ ci <= Len(fetched)
    /\ LET row == fetched[ci]
       IN  cards_by_note' =
             IF HasCard(cards_by_note, row.nid) THEN cards_by_note
             ELSE Append(cards_by_note,
                         [ note_id |-> row.nid,
                           card |-> MakeCard(NoteFields(notes, row.nid), row.did) ])
    /\ ci' = ci + 1
    /\ UNCHANGED <<notes_rows, cards_rows, notes, fetched, cards, kpc>>
    /\ UNCHANGED <<cleanVars, treeVars, convVars>>

\* line 155: cards = list(cards_by_note.values())
ReturnCards ==
    /\ kpc = "rows" /\ ci > Len(fetched)
    /\ cards' = [k \in 1..Len(cards_by_note) |-> cards_by_note[k].card]
    /\ kpc' = "done"
    /\ UNCHANGED <<notes_rows, cards_rows, notes, fetched, ci, cards_by_note>>
    /\ UNCHANGED <<cleanVars, treeVars, convVars>>

NextCards ==
    \/ LoadNotes
    \/ SelectCards
    \/ CardStep
    \/ ReturnCards

SpecCards == InitCards /\ [][NextCards]_vars

-----------------------------------------------------------------------------
(* Properties of the card list *)

ReferencedNotes == { r.nid : r \in Elems(cards_rows) }

RowsOf(N) == { r \in Elems(cards_rows) : r.nid = N }

MinOrdRowsOf(N) == { r \in RowsOf(N) : \A q \in RowsOf(N) : r.ord <= q.ord }

\* C1: the returned list holds exactly one card for every note that a card row
\* references, and that card's deckId is the deck id of a row of the note whose
\* ord is minimal among the note's rows.
C1_OneCardPerNoteMinOrd ==
    kpc = "done" =>
        /\ Len(cards) = Cardinality(ReferencedNotes)
        /\ \A N \in ReferencedNotes :
             /\ Cardinality({ k \in 1..Len(cards_by_note) :
                                cards_by_note[k].note_id = N }) = 1
             /\ \A k \in 1..Len(cards_by_note) :
                  cards_by_note[k].note_id = N =>
                      /\ cards[k] = cards_by_note[k].card
                      /\ \E r \in MinOrdRowsOf(N) : cards[k].deckId = Str(r.did)

\* C1's case: a note has two rows of different ord and different deck, and the
\* list has been returned.
C1_Witness ==
    /\ kpc = "done"
    /\ \E r, q \in Elems(cards_rows) :
         r.nid = q.nid /\ r.ord < q.ord /\ r.did # q.did /\ r.id > q.id

\* a field that holds a character that is not whitespace
NonBlank(f) == \E k \in 1..Len(f) : ~IsSpace(f[k])

\* the "<br>"-join of the non-blank fields after the first, built from the end
RECURSIVE JoinedBack(_, _)
JoinedBack(fields, k) ==
    IF k <= 1 THEN <<>>
    ELSE LET before == JoinedBack(fields, k - 1)
         IN  IF ~NonBlank(fields[k]) THEN before
             ELSE IF \E j \in 2..(k - 1) : NonBlank(fields[j])
                  THEN before \o BrMark \o fields[k]
             ELSE fields[k]

\* C9: every output card has front / frontClean = fix_media_paths / clean_html
\* of fields[0] (empty without fields or note row), and back / backClean =
\* fix_media_paths / clean_html of the "<br>"-join, in order, of the fields[1:]
\* that are non-blank.
C9_FrontAndBack ==
    \A k \in 1..Len(cards_by_note) :
        LET fields == NoteFields(notes, cards_by_note[k].note_id)
            first  == IF fields = <<>> THEN <<>> ELSE fields[1]
            joined == JoinedBack(fields, Len(fields))
            card   == cards_by_note[k].card
        IN  /\ card.front = fix_media_paths(first)
            /\ card.frontClean = clean_html(first)
            /\ card.back = fix_media_paths(joined)
            /\ card.backClean = clean_html(joined)
            /\ (kpc = "done" => cards[k] = card)

\* C9's case: a card was built from a note with a blank field between two
\* non-blank fields of its back, and the list has been returned.
C9_Witness ==
    /\ kpc = "done"
    /\ \E k \in 1..Len(cards) :
         LET fields == NoteFields(notes, cards_by_note[k].note_id)
         IN  /\ Len(fields) >= 4
             /\ \E a, b, c \in 2..Len(fields) :
                  /\ a < b /\ b < c
                  /\ NonBlank(fields[a]) /\ ~NonBlank(fields[b]) /\ NonBlank(fields[c])
             /\ cards[k].back # <<>>

-----------------------------------------------------------------------------
(* Archive Reader and Orchestrator: extract_colpkg, extract_media,           *)
(* convert_colpkg_to_json                                                    *)

Anki21 == <<"collection.anki21">>
Anki2  == <<"collection.anki2">>

\* a JSON value of the media map that is not a string (a number, null, a list)
NotAString == <<"not-a-string">>

\* lines 23-28: the database path, None when neither name exists
FindDatabase(arch) ==
    IF Anki21 \in arch.db THEN Anki21
    ELSE IF Anki2 \in arch.db THEN Anki2
    ELSE None

\* lines 98-99 written to tolerate a missing row
ConfigRowTolerated(arch) == FALSE

\* lines 98-99: fetchone() gives None without a col row, and row[0] raises
ConfigRowMissing(arch) == ~arch.col_row

\* lines 41-42: what reading and parsing the 'media' entry raises
ReadMediaRaises(arch) ==
    CASE arch.media.kind = "absent"   -> "KeyError"
      [] arch.media.kind = "bad_utf8" -> "UnicodeDecodeError"
      [] arch.media.kind = "bad_json" -> "JSONDecodeError"
      [] OTHER -> NoError

\* line 43: except (KeyError, json.JSONDecodeError)
CaughtReadingMap(exc) == exc \in {"KeyError", "JSONDecodeError"}

\* lines 50-54 with the count taken before the payload is read
CountAfterEntryEager(count, present) == count + 1

\* lines 50-56: the count after one entry of the map
CountAfterEntry(count, present) == IF present THEN count + 1 ELSE count

\* the original names of the model, and the values that are no names
MediaNames ==
    { <<"c", "a", "t", ".", "j", "p", "g">>,
      <<"m", "i", "s", "s", "i", "n", "g", ".", "p", "n", "g">>,
      NotAString }

\* the JSON objects of n entries: the k-th numeric name is str(k-1)
MediaMaps(n) ==
    { [k \in 1..n |-> [num |-> Str(k - 1), name |-> f[k]]] :
        f \in [1..n -> MediaNames] }

MediaEntries ==
    { [kind |-> k, map |-> <<>>] :
        k \in {"absent", "bad_utf8", "bad_json", "not_object"} }
    \cup { [kind |-> "object", map |-> m] :
             m \in UNION { MediaMaps(n) : n \in 0..MaxMedia } }

Archives ==
    [ db       : SUBSET {Anki21, Anki2},
      col_row  : BOOLEAN,
      media    : MediaEntries,
      payloads : SUBSET { Str(k - 1) : k \in 1..MaxMedia } ]

InitConvert ==
    /\ archive \in Archives
    /\ pc = "extract" /\ error = NoError /\ db_path = None
    /\ output_written = FALSE /\ media_started = FALSE
    /\ media_map = <<>> /\ mi = 0 /\ media_files = <<>>
    /\ media_count = 0 /\ warned = FALSE
    /\ CleanIdle /\ TreeIdle /\ CardIdle

\* line 226, extract_colpkg finds a database
ExtractOk ==
    /\ pc = "extract" /\ FindDatabase(archive) # None
    /\ db_path' = FindDatabase(archive)
    /\ pc' = "parse"
    /\ UNCHANGED <<archive, error, output_written, media_started, media_map,
                   mi, media_files, media_count, warned>>
    /\ UNCHANGED <<cleanVars, treeVars, cardVars>>

\* line 226, extract_colpkg raises at line 28
ExtractFail ==
    /\ pc = "extract" /\ FindDatabase(archive) = None
    /\ error' = "FileNotFoundError"
    /\ pc' = "failed"
    /\ UNCHANGED <<archive, db_path, output_written, media_started, media_map,
                   mi, media_files, media_count, warned>>
    /\ UNCHANGED <<cleanVars, treeVars, cardVars>>

\* line 230, parse_anki_collection returns
ParseOk ==
    /\ pc = "parse" /\ ~ConfigRowMissing(archive)
    /\ pc' = "write"
    /\ UNCHANGED <<archive, error, db_path, output_written, media_started,
                   media_map, mi, media_files, media_count, warned>>
    /\ UNCHANGED <<cleanVars, treeVars, cardVars>>

\* line 230, parse_anki_collection raises at line 99
ParseFail ==
    /\ pc = "parse" /\ ConfigRowMissing(archive)
    /\ error' = "TypeError"
    /\ pc' = "failed"
    /\ UNCHANGED <<archive, db_path, output_written, media_started, media_map,
                   mi, media_files, media_count, warned>>
    /\ UNCHANGED <<cleanVars, treeVars, cardVars>>

\* lines 234-235
WriteJson ==
    /\ pc = "write"
    /\ output_written' = TRUE
    /\ pc' = "media"
    /\ UNCHANGED <<archive, error, db_path, media_started, media_map, mi,
                   media_files, media_count, warned>>
    /\ UNCHANGED <<cleanVars, treeVars, cardVars>>

\* lines 242, 33-48: extract_media up to the first entry of the map
MediaOpen ==
    /\ pc = "media"
    /\ media_started' = TRUE
    /\ media_count' = 0
    /\ LET exc == ReadMediaRaises(archive)
       IN  IF exc # NoError
           THEN IF CaughtReadingMap(exc)
                THEN /\ warned' = TRUE /\ pc' = "done"
                     /\ UNCHANGED <<error, media_map, mi>>
                ELSE /\ error' = exc /\ pc' = "failed"
                     /\ UNCHANGED <<warned, media_map, mi>>
           ELSE IF archive.media.kind # "object"
                THEN \* line 48: the parsed value has no items()
                     /\ error' = "AttributeError" /\ pc' = "failed"
                     /\ UNCHANGED <<warned, media_map, mi>>
                ELSE /\ media_map' = archive.media.map /\ mi' = 1
                     /\ pc' = "entries"
                     /\ UNCHANGED <<error, warned>>
    /\ UNCHANGED <<archive, db_path, output_written, media_files>>
    /\ UNCHANGED <<cleanVars, treeVars, cardVars>>

\* lines 48-56: one entry of the map
MediaEntry ==
    /\ pc = "entries" /\ mi <= Len(media_map)
    /\ LET e == media_map[mi]
           present == e.num \in archive.payloads
       IN  IF present /\ e.name = NotAString
           THEN \* line 51: os.path.join raises TypeError
                /\ error' = "TypeError" /\ pc' = "failed"
                /\ UNCHANGED <<mi, media_files, media_count>>
           ELSE /\ media_files' =
                     IF present
                     THEN (e.name :> e.num)
                            @@ [n \in DOMAIN media_files \ {e.name} |-> media_files[n]]
                     ELSE media_files
                /\ media_count' = CountAfterEntry(media_count, present)
                /\ mi' = mi + 1
                /\ UNCHANGED <<error, pc>>
    /\ UNCHANGED <<archive, db_path, output_written, media_started, media_map,
                   warned>>
    /\ UNCHANGED <<cleanVars, treeVars, cardVars>>

\* lines 58, 243-245
MediaReturn ==
    /\ pc = "entries" /\ mi > Len(media_map)
    /\ pc' = "done"
    /\ UNCHANGED <<archive, error, db_path, output_written, media_started,
                   media_map, mi, media_files, media_count, warned>>
    /\ UNCHANGED <<cleanVars, treeVars, cardVars>>

NextConvert ==
    \/ ExtractOk
    \/ ExtractFail
    \/ ParseOk
    \/ ParseFail
    \/ WriteJson
    \/ MediaOpen
    \/ MediaEntry
    \/ MediaReturn

SpecConvert == InitConvert /\ [][NextConvert]_vars

-----------------------------------------------------------------------------
(* The whole program: any one of the four parts, from its own start *)

Init == InitClean \/ InitTree \/ InitCards \/ InitConvert

Next == NextClean \/ NextTree \/ NextCards \/ NextConvert

Spec == Init /\ [][Next]_vars

-----------------------------------------------------------------------------
(* Properties of the conversion *)

\* the archive holds neither database name, or its database has no col row
FatalArchive ==
    \/ (Anki21 \notin archive.db /\ Anki2 \notin archive.db)
    \/ ~archive.col_row

\* C5: when the archive has no database file or no col row, the conversion
\* fails before the output file is opened and before media extraction starts.
C5_FatalBeforeOutput ==
    FatalArchive =>
        /\ ~output_written
        /\ ~media_started
        /\ media_files = <<>>
        /\ pc \in {"extract", "parse", "failed"}
        /\ pc = "failed" => error \in {"FileNotFoundError", "TypeError"}

\* C5's case: a database file was found, the col row is absent, and the
\* conversion has failed.
C5_Witness ==
    /\ pc = "failed"
    /\ db_path # None
    /\ ~archive.col_row

\* the media entry is absent or is no JSON object mapping names to names
MediaUnparsable ==
    \/ archive.media.kind # "object"
    \/ \E k \in 1..Len(archive.media.map) : archive.media.map[k].name = NotAString

\* C6: with an absent or unparsable media entry extract_media never raises: it
\* warns, writes no file, returns 0, and the conversion completes with the JSON
\* written.
C6_UnparsableMediaIsNonFatal ==
    (MediaUnparsable /\ media_started) =>
        /\ pc # "failed"
        /\ media_files = <<>>
        /\ pc = "done" =>
             warned /\ media_count = 0 /\ output_written /\ error = NoError

MediaParsable ==
    /\ archive.media.kind = "object"
    /\ \A k \in 1..Len(archive.media.map) : archive.media.map[k].name # NotAString

PresentEntries ==
    { k \in 1..Len(archive.media.map) :
        archive.media.map[k].num \in archive.payloads }

\* C7: for a parsable media map, entries whose payload is absent are skipped
\* without raising, every present payload is written under its original name,
\* and the returned count is the number of payloads written: one per present
\* entry, which is the number of files of the media directory when the
\* original names of the present entries differ.
C7_MissingPayloadSkipped ==
    (MediaParsable /\ media_started) =>
        /\ pc # "failed" /\ error = NoError
        /\ pc = "done" =>
             /\ media_count = Cardinality(PresentEntries)
             /\ DOMAIN media_files =
                  { archive.media.map[k].name : k \in PresentEntries }
             /\ \A n \in DOMAIN media_files :
                  \E k \in PresentEntries :
                      /\ archive.media.map[k].name = n
                      /\ archive.media.map[k].num = media_files[n]
             /\ (\A j, k \in PresentEntries :
                   archive.media.map[j].name = archive.media.map[k].name => j = k)
                  => media_count = Cardinality(DOMAIN media_files)
             /\ ~warned

\* C7's case: a map of two entries, the first payload present and the second
\* absent, and extract_media has returned.
C7_Witness ==
    /\ pc = "done"
    /\ MediaParsable
    /\ Len(archive.media.map) >= 2
    /\ archive.media.map[1].num \in archive.payloads
    /\ archive.media.map[2].num \notin archive.payloads
    /\ archive.media.map[1].name # archive.media.map[2].name
    /\ media_count = 1

-----------------------------------------------------------------------------
(* Properties of the sanitizer *)

FiveEntities == {EntNbsp, EntLt, EntGt, EntAmp, EntQuot}

\* C8: for each of the five entities, clean_html of "&amp;" followed by the rest
\* of the entity's name is the entity text itself, not its decoded character.
C8_AmpDecodedLast ==
    \A e \in FiveEntities :
        (text = EntAmp \o Tail(e) /\ cleaned # None) => cleaned = e

=============================================================================
